---- MODULE Spec2Model ----
(***************************************************************************)
(* ADIF log parser (src/LogParser5.py, class ADIFLogParser): parse_file,   *)
(* parse_record, is_record_confirmed, sort_records_by_band and             *)
(* filter_records.  Text is a sequence of one-character strings; a record  *)
(* is a function from field names (character sequences) to values          *)
(* (character sequences), as the dict of the source.                       *)
(***************************************************************************)
EXTENDS Integers, Sequences, FiniteSets

VARIABLES file, file2, loaded, current_file, prev_file, failed, records,
          filter_type, band_filter, filtered, sorted, op

vars == <<file, file2, loaded, current_file, prev_file, failed, records,
          filter_type, band_filter, filtered, sorted, op>>

\* ---------------------------------------------------------------- bounds

\* Fields and markers in the file on disk.
MaxItems == 3

\* Records in a record collection drawn directly.
MaxRecs == 3

\* ------------------------------------------------------------ characters

LowerLetters ==
  <<"a","b","c","d","e","f","g","h","i","j","k","l","m",
    "n","o","p","q","r","s","t","u","v","w","x","y","z">>

UpperLetters ==
  <<"A","B","C","D","E","F","G","H","I","J","K","L","M",
    "N","O","P","Q","R","S","T","U","V","W","X","Y","Z">>

Digits == <<"0","1","2","3","4","5","6","7","8","9">>

\* The characters of the model in code point order (str comparison).
CodeOrder ==
  <<"\t", "\n", " ", "+", "-">> \o Digits \o <<":", "<", ">">> \o UpperLetters
    \o <<"_">> \o LowerLetters

IndexOf(s, c) == CHOOSE i \in 1..Len(s) : s[i] = c

Occurs(s, c) == \E i \in 1..Len(s) : s[i] = c

Code(c) == IndexOf(CodeOrder, c)

IsDigit(c) == Occurs(Digits, c)

DigitVal(c) == IndexOf(Digits, c) - 1

IsSpace(c) == c \in {" ", "\t", "\n"}

UpperChar(c) == IF Occurs(LowerLetters, c) THEN UpperLetters[IndexOf(LowerLetters, c)] ELSE c

LowerChar(c) == IF Occurs(UpperLetters, c) THEN LowerLetters[IndexOf(UpperLetters, c)] ELSE c

\* --------------------------------------------------------------- strings

\* str.upper()
Upper(s) == [i \in 1..Len(s) |-> UpperChar(s[i])]

\* str.lower()
Lower(s) == [i \in 1..Len(s) |-> LowerChar(s[i])]

\* s[:n]
Take(s, n) == SubSeq(s, 1, IF n < Len(s) THEN n ELSE Len(s))

\* s[n:]  (n counted from 0)
Drop(s, n) == SubSeq(s, n + 1, Len(s))

RECURSIVE LStrip(_)
LStrip(s) == IF s # <<>> /\ IsSpace(s[1]) THEN LStrip(Tail(s)) ELSE s

RECURSIVE RStrip(_)
RStrip(s) ==
  IF s # <<>> /\ IsSpace(s[Len(s)]) THEN RStrip(SubSeq(s, 1, Len(s) - 1)) ELSE s

\* str.strip()
Strip(s) == RStrip(LStrip(s))

\* p in s
Contains(s, p) == \E i \in 0..(Len(s) - Len(p)) : SubSeq(s, i + 1, i + Len(p)) = p

\* s.find(p) counted from 1: where p first occurs in s, or 0.
Find(s, p) ==
  LET at == {i \in 1..(Len(s) - Len(p) + 1) : SubSeq(s, i, i + Len(p) - 1) = p}
  IN IF at = {} THEN 0 ELSE CHOOSE i \in at : \A k \in at : i <= k

\* s.split(sep): the pieces between the non-overlapping occurrences of sep,
\* found left to right.
RECURSIVE Split(_, _)
Split(s, sep) ==
  LET i == Find(s, sep)
  IN IF i = 0 THEN <<s>>
     ELSE <<SubSeq(s, 1, i - 1)>> \o Split(Drop(s, i - 1 + Len(sep)), sep)

\* s.replace(old, ""): the non-overlapping occurrences of old, found left
\* to right, removed.
RECURSIVE Remove(_, _)
Remove(s, old) ==
  LET i == Find(s, old)
  IN IF i = 0 THEN s
     ELSE SubSeq(s, 1, i - 1) \o Remove(Drop(s, i - 1 + Len(old)), old)

\* s < t as str compares: by code point, a proper prefix first.
RECURSIVE StrLess(_, _)
StrLess(s, t) ==
  IF t = <<>> THEN FALSE
  ELSE IF s = <<>> THEN TRUE
  ELSE IF s[1] # t[1] THEN Code(s[1]) < Code(t[1])
  ELSE StrLess(Tail(s), Tail(t))

\* ------------------------------------------------------------ field names

CALL == <<"C","A","L","L">>

BAND == <<"B","A","N","D">>

DXCC == <<"D","X","C","C">>

COUNTRY == <<"C","O","U","N","T","R","Y">>

LOTW_QSL_RCVD == <<"L","O","T","W","_","Q","S","L","_","R","C","V","D">>

QSL_RCVD == <<"Q","S","L","_","R","C","V","D">>

EorMarker == <<"<","e","o","r",">">>

\* dict.get(key, default)
Get(record, key, default) == IF key \in DOMAIN record THEN record[key] ELSE default

\* record[key] = value
Put(record, key, value) ==
  [k \in DOMAIN record \cup {key} |-> IF k = key THEN value ELSE record[k]]

EmptyRecord == [k \in {} |-> <<>>]

\* ------------------------------------------------------------- tokenizer

\* Position of the first character of s at or after position i that is in
\* cs, or 0 when there is none.
FirstIn(s, i, cs) ==
  LET at == {k \in i..Len(s) : s[k] \in cs}
  IN IF at = {} THEN 0 ELSE CHOOSE k \in at : \A n \in at : k <= n

\* Position of the first character of s at or after position i that is not
\* white space, or Len(s) + 1.
RECURSIVE SkipSpace(_, _)
SkipSpace(s, i) == IF i <= Len(s) /\ IsSpace(s[i]) THEN SkipSpace(s, i + 1) ELSE i

\* The longest run of digits s starts with.
RECURSIVE DigitRun(_)
DigitRun(s) == IF s # <<>> /\ IsDigit(s[1]) THEN <<s[1]>> \o DigitRun(Tail(s)) ELSE <<>>

\* Group 2 of field_pattern on the text between the name and the closing >:
\* the digits of (?::(\d+))? when what follows them is (?::[^>]*)? or
\* nothing, and empty when the group takes no part in the match.
LengthGroup(tail) ==
  IF tail = <<>> THEN <<>>
  ELSE LET ds   == DigitRun(Tail(tail))
           rest == Drop(tail, 1 + Len(ds))
       IN IF ds # <<>> /\ (rest = <<>> \/ rest[1] = ":") THEN ds ELSE <<>>

\* field_pattern = <([^>:]+)(?::(\d+))?(?::[^>]*)?>\s*([^<]*) tried at
\* position i of text, where text[i] = "<".  The name is the run up to the
\* first > or :, the tag closes at the first >, the value runs from the first
\* character that is not white space to the next <.
MatchAt(text, i) ==
  LET k == FirstIn(text, i + 1, {">"})
      j == FirstIn(text, i + 1, {">", ":"})
  IN IF k = 0 \/ j = i + 1
     THEN [found |-> FALSE, name |-> <<>>, length |-> <<>>, value |-> <<>>, end |-> i + 1]
     ELSE LET v == SkipSpace(text, k + 1)
              n == FirstIn(text, v, {"<"})
              e == IF n = 0 THEN Len(text) + 1 ELSE n
          IN [found  |-> TRUE,
              name   |-> SubSeq(text, i + 1, j - 1),
              length |-> LengthGroup(SubSeq(text, j, k - 1)),
              value  |-> SubSeq(text, v, e - 1),
              end    |-> e]

\* re.findall(field_pattern, text): the matches left to right, each search
\* starting where the match before ended.
RECURSIVE FindAllFrom(_, _)
FindAllFrom(text, i) ==
  LET lt == FirstIn(text, i, {"<"})
  IN IF lt = 0 THEN <<>>
     ELSE LET m == MatchAt(text, lt)
          IN IF m.found THEN <<m>> \o FindAllFrom(text, m.end)
             ELSE FindAllFrom(text, lt + 1)

FindAll(text) == FindAllFrom(text, 1)

\* int(s) of a string of decimal digits.
RECURSIVE DecVal(_)
DecVal(ds) ==
  IF ds = <<>> THEN 0 ELSE 10 * DecVal(SubSeq(ds, 1, Len(ds) - 1)) + DigitVal(ds[Len(ds)])

\* FieldValue were the length of the tag ignored.
FieldValue_no_cut(m) == Strip(m.value)

\* The value stored for one match: stripped, then cut to the length given
\* (a length the pattern captured is all digits, so isdigit() holds of it).
FieldValue(m) ==
  LET field_value == Strip(m.value)
  IN IF m.length # <<>> THEN Take(field_value, DecVal(m.length)) ELSE field_value

\* The loop of parse_record over the matches.
RECURSIVE StoreFields(_, _)
StoreFields(matches, record) ==
  IF matches = <<>> THEN record
  ELSE StoreFields(Tail(matches),
                   Put(record, Upper(matches[1].name), FieldValue(matches[1])))

\* parse_record were the test for CALL left out.
parse_record_keep_all(record_text) ==
  LET record == StoreFields(FindAll(record_text), EmptyRecord)
  IN IF DOMAIN record # {} THEN <<record>> ELSE <<>>

\* parse_record: the record in a sequence of one, or <<>> for None.
parse_record(record_text) ==
  LET record == StoreFields(FindAll(record_text), EmptyRecord)
  IN IF Get(record, CALL, <<>>) # <<>> THEN <<record>> ELSE <<>>

\* The loop of parse_file over the chunks.
RECURSIVE ParseChunks(_)
ParseChunks(record_texts) ==
  IF record_texts = <<>> THEN <<>>
  ELSE (IF Strip(record_texts[1]) # <<>> THEN parse_record(record_texts[1]) ELSE <<>>)
         \o ParseChunks(Tail(record_texts))

\* parse_file were it to keep only the chunks that an <eor> closes.
parse_file_closed_only(content) ==
  LET record_texts == Split(content, EorMarker)
  IN ParseChunks(SubSeq(record_texts, 1, Len(record_texts) - 1))

\* parse_file on the content read: the new self.records.
parse_file(content) == ParseChunks(Split(content, EorMarker))

\* ---------------------------------------------------------- confirmation

\* is_record_confirmed were a missing flag read as "Y".
is_record_confirmed_default_yes(record) ==
  LET lotw_rcvd == Get(record, LOTW_QSL_RCVD, <<"Y">>)
      qsl_rcvd  == Get(record, QSL_RCVD, <<"Y">>)
  IN lotw_rcvd = <<"Y">> \/ qsl_rcvd = <<"Y">>

is_record_confirmed(record) ==
  LET lotw_rcvd == Get(record, LOTW_QSL_RCVD, <<"N">>)
      qsl_rcvd  == Get(record, QSL_RCVD, <<"N">>)
  IN lotw_rcvd = <<"Y">> \/ qsl_rcvd = <<"Y">>

\* -------------------------------------------------------------- band sort

\* The keys of band_sort_key are held in hundredths, so that the quotient
\* of the centimetre branch is an integer.
KeyScale == 100

\* The key of an unknown or invalid band.
UnknownKey == 999

\* int(s) of a str: white space around, an optional sign, then decimal digits
\* with single underscores between them; anything else is a ValueError.
PyInt(s) ==
  LET t      == Strip(s)
      signed == t # <<>> /\ t[1] \in {"+", "-"}
      body   == IF signed THEN Tail(t) ELSE t
      valid  == /\ body # <<>>
                /\ IsDigit(body[1])
                /\ IsDigit(body[Len(body)])
                /\ \A i \in 1..Len(body) : IsDigit(body[i]) \/ body[i] = "_"
                /\ \A i \in 1..(Len(body) - 1) : ~(body[i] = "_" /\ body[i + 1] = "_")
      n      == DecVal(Remove(body, <<"_">>))
  IN [ok |-> valid, val |-> IF ~valid THEN 0 ELSE IF signed /\ t[1] = "-" THEN -n ELSE n]

\* band_sort_key, in hundredths.
band_sort_key(record) ==
  LET band == Lower(Get(record, BAND, <<>>))
  IN IF Contains(band, <<"m">>)
     THEN LET r == PyInt(Remove(band, <<"m">>))
          IN IF r.ok THEN KeyScale * r.val ELSE KeyScale * UnknownKey
     ELSE IF Contains(band, <<"c", "m">>)
     THEN LET r == PyInt(Remove(band, <<"c", "m">>))
          IN IF r.ok THEN r.val ELSE KeyScale * UnknownKey
     ELSE KeyScale * UnknownKey

\* One step of a stable descending sort: x goes before the first element
\* whose key is smaller, so behind the elements of equal key already placed.
RECURSIVE InsertByBand(_, _)
InsertByBand(seq, x) ==
  IF seq = <<>> THEN <<x>>
  ELSE IF band_sort_key(seq[1]) < band_sort_key(x) THEN <<x>> \o seq
  ELSE <<seq[1]>> \o InsertByBand(Tail(seq), x)

RECURSIVE SortedByBand(_, _)
SortedByBand(todo, done) ==
  IF todo = <<>> THEN done ELSE SortedByBand(Tail(todo), InsertByBand(done, todo[1]))

\* sorted(records, key=band_sort_key, reverse=True): a new list.
sort_records_by_band(recs) == SortedByBand(recs, <<>>)

\* ----------------------------------------------------------------- filter

All == <<"a","l","l">>

\* The band test were the record's BAND compared as written.
BandMatches_case_sensitive(record, bf) == Get(record, BAND, <<>>) = Lower(bf)

\* record.get('BAND', '').lower() == band_filter.lower()
BandMatches(record, bf) == Lower(Get(record, BAND, <<>>)) = Lower(bf)

\* The sort key were .upper() left out.
CountryKey_raw(record) == Get(record, COUNTRY, <<>>)

\* key=lambda x: x.get('COUNTRY', '').upper()
CountryKey(record) == Upper(Get(record, COUNTRY, <<>>))

\* One step of a stable ascending sort: x goes before the first element
\* whose key is greater.
RECURSIVE InsertByCountry(_, _)
InsertByCountry(seq, x) ==
  IF seq = <<>> THEN <<x>>
  ELSE IF StrLess(CountryKey(x), CountryKey(seq[1])) THEN <<x>> \o seq
  ELSE <<seq[1]>> \o InsertByCountry(Tail(seq), x)

RECURSIVE SortedByCountry(_, _)
SortedByCountry(todo, done) ==
  IF todo = <<>> THEN done ELSE SortedByCountry(Tail(todo), InsertByCountry(done, todo[1]))

\* confirmed_records: the confirmed records on the band, in collection order.
ConfirmedOnBand(recs, bf) ==
  SelectSeq(recs, LAMBDA r : is_record_confirmed(r) /\ (bf # All => BandMatches(r, bf)))

\* The loop over confirmed_records with seen_dxcc.
RECURSIVE OnePerDxcc(_, _)
OnePerDxcc(recs, seen_dxcc) ==
  IF recs = <<>> THEN <<>>
  ELSE LET dxcc == Get(recs[1], DXCC, <<>>)
       IN IF dxcc # <<>> /\ dxcc \notin seen_dxcc
          THEN <<recs[1]>> \o OnePerDxcc(Tail(recs), seen_dxcc \cup {dxcc})
          ELSE OnePerDxcc(Tail(recs), seen_dxcc)

\* The branch of filter_type "confirmed_countries".
ConfirmedCountries(recs, bf) ==
  OnePerDxcc(SortedByCountry(ConfirmedOnBand(recs, bf), <<>>), {})

\* confirmed_band_dxcc: the (BAND, DXCC) pairs of the confirmed records that
\* have both.
ConfirmedBandDxcc(recs) ==
  {<<Get(recs[i], BAND, <<>>), Get(recs[i], DXCC, <<>>)>> :
     i \in {n \in 1..Len(recs) :
              /\ is_record_confirmed(recs[n])
              /\ Get(recs[n], BAND, <<>>) # <<>>
              /\ Get(recs[n], DXCC, <<>>) # <<>>}}

\* The branch were the test against confirmed_band_dxcc left out.
UnconfirmedNoQsl_no_exclusion(recs) == SelectSeq(recs, LAMBDA r : ~is_record_confirmed(r))

\* The branch of filter_type "unconfirmed_no_qsl".
UnconfirmedNoQsl(recs) ==
  LET confirmed_band_dxcc == ConfirmedBandDxcc(recs)
  IN SelectSeq(recs, LAMBDA r :
       LET band == Get(r, BAND, <<>>)
           dxcc == Get(r, DXCC, <<>>)
       IN /\ ~is_record_confirmed(r)
          /\ (band # <<>> /\ dxcc # <<>>) => <<band, dxcc>> \notin confirmed_band_dxcc)

\* FilterByType were "unconfirmed" to look at LOTW_QSL_RCVD alone.
FilterByType_lotw_only(recs, ft, bf) ==
  CASE ft = "confirmed"           -> SelectSeq(recs, is_record_confirmed)
    [] ft = "confirmed_countries" -> ConfirmedCountries(recs, bf)
    [] ft = "unconfirmed"         ->
         SelectSeq(recs, LAMBDA r : Get(r, LOTW_QSL_RCVD, <<"N">>) # <<"Y">>)
    [] ft = "unconfirmed_no_qsl"  -> UnconfirmedNoQsl(recs)
    [] OTHER                      -> recs

\* The list filter_records holds before its band filter.
FilterByType(recs, ft, bf) ==
  CASE ft = "confirmed"           -> SelectSeq(recs, is_record_confirmed)
    [] ft = "confirmed_countries" -> ConfirmedCountries(recs, bf)
    [] ft = "unconfirmed"         -> SelectSeq(recs, LAMBDA r : ~is_record_confirmed(r))
    [] ft = "unconfirmed_no_qsl"  -> UnconfirmedNoQsl(recs)
    [] OTHER                      -> recs

\* The band filter that ends filter_records.
ApplyBandFilter(recs, ft, bf) ==
  IF bf # All /\ ft # "confirmed_countries"
  THEN SelectSeq(recs, LAMBDA r : BandMatches(r, bf))
  ELSE recs

\* filter_records(filter_type, band_filter) on self.records.
filter_records(recs, ft, bf) == ApplyBandFilter(FilterByType(recs, ft, bf), ft, bf)

\* ------------------------------------------------------------------ files

\* A file on disk is a sequence of items <name:length:type>raw, the length
\* and the type left out when empty; the marker <eor> is the item named eor.
Item(name, length, typ, raw) == [name |-> name, length |-> length, typ |-> typ, raw |-> raw]

RenderItem(it) ==
  <<"<">> \o it.name
    \o (IF it.length # <<>> THEN <<":">> \o it.length ELSE <<>>)
    \o (IF it.typ # <<>> THEN <<":">> \o it.typ ELSE <<>>)
    \o <<">">> \o it.raw

\* file.read(): the text of the file.
RECURSIVE Render(_)
Render(items) == IF items = <<>> THEN <<>> ELSE RenderItem(items[1]) \o Render(Tail(items))

Eor == Item(<<"e","o","r">>, <<>>, <<>>, <<"\n">>)

ItemPool ==
  { Item(<<"c","a","l","l">>, <<"2">>, <<>>, <<"W","0","R","L","D">>),
    Item(<<"C","a","l","l">>, <<"5">>, <<>>, <<"K","1","A"," ">>),
    Item(<<"c","a","l","l">>, <<"0">>, <<>>, <<"X">>),
    Item(<<"b","a","n","d">>, <<"3">>, <<"S">>, <<" ","4","0","M">>),
    Item(<<"q","s","l","_","r","c","v","d">>, <<"1">>, <<>>, <<"Y">>),
    Item(<<"d","x","c","c">>, <<>>, <<>>, <<"1","\n">>),
    Item(<<"E","O","R">>, <<>>, <<>>, <<>>),
    Eor }

SeqsUpTo(S, n) == UNION {[1..k -> S] : k \in 0..n}

Files == SeqsUpTo(ItemPool, MaxItems)

\* ------------------------------------------------------ record collections

RECURSIVE Fields(_)
Fields(pairs) ==
  IF pairs = <<>> THEN EmptyRecord
  ELSE Put(Fields(SubSeq(pairs, 1, Len(pairs) - 1)), pairs[Len(pairs)][1], pairs[Len(pairs)][2])

Y == <<"Y">>

B10m == <<"1","0","m">>

B20m == <<"2","0","m">>

B20M == <<"2","0","M">>

B40m == <<"4","0","m">>

B40M == <<"4","0","M">>

B6m == <<"6","m">>

B70cm == <<"7","0","c","m">>

W0 == <<CALL, <<"W","0">>>>

\* Records that differ in BAND.
BandPool ==
  { Fields(<<W0, <<BAND, B10m>>>>), Fields(<<W0, <<BAND, B40m>>>>),
    Fields(<<W0, <<BAND, B40M>>>>), Fields(<<W0, <<BAND, B70cm>>>>),
    Fields(<<W0>>) }

\* Records that differ in the two confirmation flags.
FlagPool ==
  { Fields(<<W0>>),
    Fields(<<W0, <<LOTW_QSL_RCVD, Y>>>>),
    Fields(<<W0, <<QSL_RCVD, Y>>>>),
    Fields(<<W0, <<LOTW_QSL_RCVD, <<"y">>>>>>),
    Fields(<<W0, <<LOTW_QSL_RCVD, <<"N">>>>, <<QSL_RCVD, Y>>>>) }

\* Confirmed and unconfirmed records on (BAND, DXCC) pairs.
PairPool ==
  LET pairs == { <<<<BAND, B20m>>, <<DXCC, <<"1">>>>>>,
                 <<<<BAND, B20M>>, <<DXCC, <<"1">>>>>>,
                 <<<<DXCC, <<"1">>>>>>,
                 <<<<BAND, B20m>>, <<DXCC, <<>>>>>> }
  IN {Fields(<<W0>> \o p) : p \in pairs}
       \cup {Fields(<<W0, <<QSL_RCVD, Y>>>> \o p) : p \in pairs \ {<<<<DXCC, <<"1">>>>>>}}

\* Records with DXCC and COUNTRY.
CountryPool ==
  LET L == <<LOTW_QSL_RCVD, Y>>
  IN { Fields(<<W0, L, <<BAND, B20m>>, <<DXCC, <<"1">>>>, <<COUNTRY, <<"b">>>>>>),
       Fields(<<W0, L, <<BAND, B40m>>, <<DXCC, <<"1">>>>, <<COUNTRY, <<"A">>>>>>),
       Fields(<<W0, L, <<BAND, B20M>>, <<DXCC, <<"1">>>>, <<COUNTRY, <<"a">>>>>>),
       Fields(<<W0, L, <<BAND, B20m>>, <<DXCC, <<"2">>>>, <<COUNTRY, <<"B">>>>>>),
       Fields(<<W0, L, <<BAND, B20m>>, <<COUNTRY, <<"A">>>>>>),
       Fields(<<W0, L, <<DXCC, <<"2">>>>>>),
       Fields(<<W0, <<BAND, B20m>>, <<DXCC, <<"1">>>>, <<COUNTRY, <<"A">>>>>>) }

\* The bands 10m, 40m, 6m, 70cm in this order.
BandExample ==
  << Fields(<<W0, <<BAND, B10m>>>>), Fields(<<W0, <<BAND, B40m>>>>),
     Fields(<<W0, <<BAND, B6m>>>>), Fields(<<W0, <<BAND, B70cm>>>> ) >>

Collections ==
  SeqsUpTo(BandPool, MaxRecs) \cup SeqsUpTo(FlagPool, MaxRecs)
    \cup SeqsUpTo(PairPool, MaxRecs) \cup SeqsUpTo(CountryPool, MaxRecs)
    \cup {BandExample}

\* A file that holds the records recs: each field as <name:length>value with
\* the length of the value, each record closed by <eor>.
FieldOrder == <<CALL, BAND, DXCC, COUNTRY, LOTW_QSL_RCVD, QSL_RCVD>>

RecordItems(record) ==
  LET present == SelectSeq(FieldOrder, LAMBDA k : k \in DOMAIN record)
  IN [i \in 1..Len(present) |->
        Item(Lower(present[i]), <<Digits[Len(record[present[i]]) + 1]>>, <<>>,
             record[present[i]])] \o <<Eor>>

RECURSIVE FileOf(_)
FileOf(recs) == IF recs = <<>> THEN <<>> ELSE RecordItems(recs[1]) \o FileOf(Tail(recs))

\* ---------------------------------------------------------- state machine

FilterTypes == {"confirmed", "confirmed_countries", "unconfirmed", "unconfirmed_no_qsl", "all"}

BandFilters == {All, B20m, B40M}

\* The items of the first file when two files are on disk.
LoadPool ==
  { Item(<<"c","a","l","l">>, <<"2">>, <<>>, <<"W","0","R","L","D">>),
    Item(<<"b","a","n","d">>, <<"3">>, <<"S">>, <<" ","4","0","M">>),
    Eor }

\* The second file on disk: a log of two records, or an empty file.
SecondFiles ==
  { << Item(<<"C","a","l","l">>, <<"5">>, <<>>, <<"K","1","A"," ">>), Eor,
       Item(<<"c","a","l","l">>, <<"2">>, <<>>, <<"W","0","R","L","D">>) >>,
    <<>> }

\* Why open() or file.read() raises: no such file, or bytes that are not UTF-8.
ReadErrors == {"FileNotFoundError", "UnicodeDecodeError"}

\* ADIFLogParser() and the file chosen on disk; nothing is loaded.
Init ==
  /\ file \in Files
  /\ file2 = <<>>
  /\ loaded = FALSE
  /\ current_file = "none"
  /\ prev_file = "none"
  /\ failed = FALSE
  /\ records = <<>>
  /\ filter_type = "confirmed"
  /\ band_filter = All
  /\ filtered = <<>>
  /\ sorted = <<>>
  /\ op = "init"

\* The parser after a successful parse_file of a file holding a collection.
InitFilter ==
  /\ records \in Collections
  /\ file = FileOf(records)
  /\ file2 = <<>>
  /\ loaded = TRUE
  /\ current_file = "a"
  /\ prev_file = "none"
  /\ failed = FALSE
  /\ filter_type = "confirmed"
  /\ band_filter = All
  /\ filtered = <<>>
  /\ sorted = <<>>
  /\ op = "parse"

\* ADIFLogParser() with two readable files on disk; nothing is loaded.
InitLoad ==
  /\ file \in SeqsUpTo(LoadPool, MaxItems)
  /\ file2 \in SecondFiles
  /\ loaded = FALSE
  /\ current_file = "none"
  /\ prev_file = "none"
  /\ failed = FALSE
  /\ records = <<>>
  /\ filter_type = "confirmed"
  /\ band_filter = All
  /\ filtered = <<>>
  /\ sorted = <<>>
  /\ op = "init"

\* self.records were the reset of line 31 left out.
RecordsAfterParse_merge(old, content) == old \o parse_file(content)

\* self.records when parse_file returns True: reset, then filled from the
\* content read.
RecordsAfterParse(old, content) == parse_file(content)

\* self.records were it reset before the file is opened.
RecordsAfterFailedRead_reset(old) == <<>>

\* self.records when open() or file.read() raises: the exception leaves the
\* try block before self.records is assigned.
RecordsAfterFailedRead(old) == old

\* self.records were confirmed_countries to sort the collection itself.
RecordsAfterFilter_sort_in_place(recs, ft, bf) ==
  IF ft = "confirmed_countries" THEN SortedByCountry(recs, <<>>) ELSE recs

\* self.records when filter_records returns: it is only read; the list that
\* is sorted by COUNTRY and the list returned for "all" are new lists.
RecordsAfterFilter(recs, ft, bf) == recs

\* The argument were it sorted in place.
ArgAfterSort_in_place(recs) == sort_records_by_band(recs)

\* The argument of sort_records_by_band when it returns: sorted() builds a
\* new list.
ArgAfterSort(recs) == recs

\* parse_file(file_path) of the readable file path, whose items are items.
ParseFileAt(path, items) ==
  /\ records' = RecordsAfterParse(records, Render(items))
  /\ loaded' = TRUE
  /\ prev_file' = current_file
  /\ current_file' = path
  /\ failed' = FALSE
  /\ op' = "parse"
  /\ filtered' = <<>>
  /\ sorted' = <<>>
  /\ UNCHANGED <<file, file2, filter_type, band_filter>>

\* parse_file of the first file.
ParseFile == ParseFileAt("a", file)

\* parse_file of the second file.
ParseSecondFile == ParseFileAt("b", file2)

\* parse_file(file_path) of a path that cannot be opened or decoded: it
\* raises Exception("Error reading file: ...").
ParseFileFail ==
  \E e \in ReadErrors :
    /\ records' = RecordsAfterFailedRead(records)
    /\ failed' = TRUE
    /\ op' = "error"
    /\ filtered' = <<>>
    /\ sorted' = <<>>
    /\ UNCHANGED <<file, file2, loaded, current_file, prev_file, filter_type, band_filter>>

\* filter_records(filter_type, band_filter)
FilterRecords ==
  \E ft \in FilterTypes, bf \in BandFilters :
    /\ filter_type' = ft
    /\ band_filter' = bf
    /\ filtered' = filter_records(records, ft, bf)
    /\ records' = RecordsAfterFilter(records, ft, bf)
    /\ sorted' = <<>>
    /\ op' = "filter"
    /\ UNCHANGED <<file, file2, loaded, current_file, prev_file, failed>>

\* sort_records_by_band(records) on the list filter_records returned.
SortRecordsByBand ==
  /\ op = "filter"
  /\ sorted' = sort_records_by_band(filtered)
  /\ filtered' = ArgAfterSort(filtered)
  /\ op' = "sort"
  /\ UNCHANGED <<file, file2, loaded, current_file, prev_file, failed, records,
                 filter_type, band_filter>>

Next == ParseFile \/ FilterRecords \/ SortRecordsByBand

\* One readable file on disk.
Spec == Init /\ [][Next]_vars

NextFilter == FilterRecords \/ SortRecordsByBand

\* A collection loaded, then filtered and sorted.
SpecFilter == InitFilter /\ [][NextFilter]_vars

NextLoad ==
  ParseFile \/ ParseSecondFile \/ ParseFileFail \/ FilterRecords \/ SortRecordsByBand

\* Two readable files and unreadable paths, loaded in any order.
SpecLoad == InitLoad /\ [][NextLoad]_vars

\* The collection is the one the file parses to.
ParsedFromFile ==
  (op = "parse" /\ current_file = "a") => records = parse_file(Render(file))

\* ------------------------------------------------- definitions of the claims

Range(s) == {s[i] : i \in 1..Len(s)}

Count(s, x) == Cardinality({i \in 1..Len(s) : s[i] = x})

\* LOTW_QSL_RCVD is exactly "Y" or QSL_RCVD is exactly "Y".
FlagIsY(r) ==
  \/ (LOTW_QSL_RCVD \in DOMAIN r /\ r[LOTW_QSL_RCVD] = <<"Y">>)
  \/ (QSL_RCVD \in DOMAIN r /\ r[QSL_RCVD] = <<"Y">>)

\* BAND is present and equals b when letter case is ignored.
BandIs(r, b) == BAND \in DOMAIN r /\ Lower(r[BAND]) = Lower(b)

IsEorItem(it) == it.name = <<"e","o","r">> /\ it.length = <<>> /\ it.typ = <<>>

\* The items between the <eor> items.
RECURSIVE ItemChunksFrom(_, _)
ItemChunksFrom(items, cur) ==
  IF items = <<>> THEN <<cur>>
  ELSE IF IsEorItem(items[1]) THEN <<cur>> \o ItemChunksFrom(Tail(items), <<>>)
  ELSE ItemChunksFrom(Tail(items), Append(cur, items[1]))

ItemChunks(items) == ItemChunksFrom(items, <<>>)

\* The white-space-trimmed text after the tag, cut to the length of the tag.
TrimmedCut(it) ==
  IF it.length # <<>> THEN Take(Strip(it.raw), DecVal(it.length)) ELSE Strip(it.raw)

\* The text captured after the tag (white space before it skipped, white
\* space after it kept), cut to the length of the tag.
CapturedCut(it) ==
  IF it.length # <<>> THEN Take(LStrip(it.raw), DecVal(it.length)) ELSE Strip(it.raw)

\* The mapping of a chunk: each name in upper case with the value of its
\* last item.
ChunkRecord(chunk, Val(_)) ==
  [k \in {Upper(chunk[i].name) : i \in 1..Len(chunk)} |->
     LET at == {i \in 1..Len(chunk) : Upper(chunk[i].name) = k}
     IN Val(chunk[CHOOSE i \in at : \A n \in at : n <= i])]

HasCall(r) == Get(r, CALL, <<>>) # <<>>

\* The records of the chunks that have a non-empty CALL, in chunk order.
ChunkRecords(items, Val(_)) ==
  LET chunks == ItemChunks(items)
  IN SelectSeq([i \in 1..Len(chunks) |-> ChunkRecord(chunks[i], Val)], HasCall)

\* The stable descending sort of inp by Key: each element at its rank.
StableDesc(inp, Key(_)) ==
  LET n == Len(inp)
      rank(j) == 1 + Cardinality({k \in 1..n : Key(inp[k]) > Key(inp[j])})
                   + Cardinality({k \in 1..(j - 1) : Key(inp[k]) = Key(inp[j])})
  IN [q \in 1..n |-> inp[CHOOSE j \in 1..n : rank(j) = q]]

\* The stable ascending sort of inp by the upper-cased COUNTRY.
StableByCountry(inp) ==
  LET n == Len(inp)
      key(j) == Upper(Get(inp[j], COUNTRY, <<>>))
      rank(j) == 1 + Cardinality({k \in 1..n : StrLess(key(k), key(j))})
                   + Cardinality({k \in 1..(j - 1) : key(k) = key(j)})
  IN [q \in 1..n |-> inp[CHOOSE j \in 1..n : rank(j) = q]]

\* The band key as documented, in hundredths: with "cm" the numeric prefix
\* over 100, else with "m" the numeric prefix, else 999.
DocBandKey(r) ==
  LET band   == Lower(Get(r, BAND, <<>>))
      prefix == DigitRun(band)
  IN IF prefix = <<>> THEN KeyScale * UnknownKey
     ELSE IF Contains(band, <<"c", "m">>) THEN DecVal(prefix)
     ELSE IF Contains(band, <<"m">>) THEN KeyScale * DecVal(prefix)
     ELSE KeyScale * UnknownKey

FileText == Render(file)

\* ---------------------------------------------------------------- claims

\* C1 as stated: a text with no <eor> marker parses to no record.
C1_NoEorNoRecord ==
  (op = "parse" /\ ~Contains(FileText, EorMarker)) => records = <<>>

\* C1 amended: a text with no <eor> marker is one chunk; it parses to the one
\* record of all its tags when that record has a non-empty CALL, and to no
\* record otherwise.
C1_NoEorOneChunk ==
  (op = "parse" /\ ~Contains(FileText, EorMarker)) =>
    records = IF HasCall(ChunkRecord(file, TrimmedCut))
              THEN <<ChunkRecord(file, TrimmedCut)>> ELSE <<>>

C1_Witness ==
  /\ op = "parse"
  /\ ~Contains(FileText, EorMarker)
  /\ Len(records) = 1
  /\ records[1][CALL] = <<"W","0">>

\* <EOR> in the place of <eor>.
RECURSIVE LowerEor(_)
LowerEor(text) ==
  LET i == Find(text, <<"<","E","O","R",">">>)
  IN IF i = 0 THEN text
     ELSE SubSeq(text, 1, i - 1) \o EorMarker \o LowerEor(Drop(text, i + 4))

\* C2: the end-of-record marker is matched in any letter case: the text with
\* <EOR> parses to the records of the text with <eor> in its place.
C2_EorAnyCase ==
  op = "parse" => records = parse_file(LowerEor(FileText))

\* C3: sort_records_by_band returns its input stably sorted, descending, by the
\* documented band key (70cm after every metre band).
C3_SortedByDocKey ==
  op = "sort" => sorted = StableDesc(filtered, DocBandKey)

\* C4: is_record_confirmed holds exactly of the records whose LOTW_QSL_RCVD or
\* QSL_RCVD is exactly "Y"; filter_records("confirmed", "all") returns those.
C4_ConfirmedIffY ==
  /\ \A i \in 1..Len(records) : is_record_confirmed(records[i]) <=> FlagIsY(records[i])
  /\ (op = "filter" /\ filter_type = "confirmed" /\ band_filter = All) =>
       filtered = SelectSeq(records, FlagIsY)

C4_Witness ==
  /\ op = "filter" /\ filter_type = "confirmed" /\ band_filter = All
  /\ \E i \in 1..Len(records) :
       /\ Get(records[i], LOTW_QSL_RCVD, <<>>) = <<"y">>
       /\ records[i] \notin Range(filtered)
  /\ \E i \in 1..Len(records) : DOMAIN records[i] = {CALL}
  /\ \E i \in 1..Len(filtered) : Get(filtered[i], LOTW_QSL_RCVD, <<>>) = <<"N">>

\* Some confirmed record of the collection has the non-empty (BAND, DXCC) of r.
PairConfirmed(r) ==
  /\ Get(r, BAND, <<>>) # <<>>
  /\ Get(r, DXCC, <<>>) # <<>>
  /\ \E j \in 1..Len(records) :
       /\ FlagIsY(records[j])
       /\ Get(records[j], BAND, <<>>) = Get(r, BAND, <<>>)
       /\ Get(records[j], DXCC, <<>>) = Get(r, DXCC, <<>>)

\* C5: filter_records("unconfirmed_no_qsl", b) returns only unconfirmed
\* records, none whose non-empty (BAND, DXCC) is on a confirmed record of the
\* whole collection, and leaves out no unconfirmed record on the band for
\* having an empty BAND or DXCC.
C5_NoConfirmedPair ==
  (op = "filter" /\ filter_type = "unconfirmed_no_qsl") =>
    /\ \A i \in 1..Len(filtered) : ~FlagIsY(filtered[i]) /\ ~PairConfirmed(filtered[i])
    /\ \A j \in 1..Len(records) :
         ( /\ ~FlagIsY(records[j])
           /\ (Get(records[j], BAND, <<>>) = <<>> \/ Get(records[j], DXCC, <<>>) = <<>>)
           /\ (band_filter # All => BandIs(records[j], band_filter)) )
         => Count(filtered, records[j]) = Count(records, records[j])

C5_Witness ==
  /\ op = "filter" /\ filter_type = "unconfirmed_no_qsl" /\ band_filter = B20m
  /\ \E j \in 1..Len(records) : ~FlagIsY(records[j]) /\ PairConfirmed(records[j])
  /\ \E i \in 1..Len(filtered) : Get(filtered[i], DXCC, <<"x">>) = <<>>

\* C6: filter_records("confirmed_countries", b) returns no two records with
\* the same DXCC; each is confirmed, has a non-empty DXCC, is on the band b
\* unless b is "all", and is the first of its DXCC among the confirmed records
\* on the band stably sorted by upper-cased COUNTRY.
C6_OnePerDxcc ==
  (op = "filter" /\ filter_type = "confirmed_countries") =>
    LET on(r) == FlagIsY(r) /\ (band_filter # All => BandIs(r, band_filter))
        order == StableByCountry(SelectSeq(records, on))
    IN /\ \A i, j \in 1..Len(filtered) :
            i # j => Get(filtered[i], DXCC, <<>>) # Get(filtered[j], DXCC, <<>>)
       /\ \A i \in 1..Len(filtered) :
            /\ on(filtered[i])
            /\ Get(filtered[i], DXCC, <<>>) # <<>>
            /\ \E k \in 1..Len(order) :
                 /\ order[k] = filtered[i]
                 /\ \A n \in 1..(k - 1) :
                      Get(order[n], DXCC, <<>>) # Get(filtered[i], DXCC, <<>>)

\* The record kept for a DXCC comes later in the collection than another
\* confirmed record of that DXCC.
C6_Witness ==
  /\ op = "filter" /\ filter_type = "confirmed_countries" /\ band_filter = All
  /\ Len(filtered) = 2
  /\ \E i, j \in 1..Len(records) :
       /\ i < j
       /\ FlagIsY(records[i])
       /\ records[i] \notin Range(filtered)
       /\ records[j] \in Range(filtered)
       /\ Get(records[i], DXCC, <<>>) = Get(records[j], DXCC, <<>>)

C8_AllReturnsParsed ==
  (loaded /\ op = "filter" /\ filter_type = "all" /\ band_filter = All) =>
    /\ filtered = records
    /\ \A i \in 1..Len(filtered) : CALL \in DOMAIN filtered[i] /\ filtered[i][CALL] # <<>>
    /\ LET chunks == ItemChunks(file)
           calls  == [i \in 1..Len(chunks) |->
                        Get(ChunkRecord(chunks[i], TrimmedCut), CALL, <<>>)]
       IN [i \in 1..Len(filtered) |-> filtered[i][CALL]]
            = SelectSeq(calls, LAMBDA c : c # <<>>)

C8_Witness ==
  /\ loaded /\ op = "filter" /\ filter_type = "all" /\ band_filter = All
  /\ Len(filtered) = 2
  /\ filtered[1][CALL] = <<"K","1","A">>
  /\ filtered[2][CALL] = <<"W","0">>

\* C9: the results of "confirmed" and "unconfirmed" with band "all" partition
\* the collection: each record is in exactly one of them, as often as in the
\* collection.
C9_Partition ==
  (op = "filter" /\ filter_type \in {"confirmed", "unconfirmed"} /\ band_filter = All) =>
    LET other == filter_records(records,
                   IF filter_type = "confirmed" THEN "unconfirmed" ELSE "confirmed", All)
    IN \A i \in 1..Len(records) :
         /\ Count(filtered, records[i]) + Count(other, records[i]) = Count(records, records[i])
         /\ ~(records[i] \in Range(filtered) /\ records[i] \in Range(other))

C9_Witness ==
  /\ op = "filter" /\ filter_type = "unconfirmed" /\ band_filter = All
  /\ Len(records) = 3
  /\ Len(filtered) = 1
  /\ \E i \in 1..Len(records) : Get(records[i], QSL_RCVD, <<>>) = <<"Y">>

\* C10: for the four kinds that filter by band last, the result with band b is
\* the result with band "all" cut down, in order, to the records whose BAND is
\* b in any letter case; a record without BAND is never in it.
C10_BandSubsequence ==
  ( /\ op = "filter"
    /\ filter_type \in {"confirmed", "unconfirmed", "unconfirmed_no_qsl", "all"}
    /\ band_filter # All ) =>
    /\ filtered = SelectSeq(filter_records(records, filter_type, All),
                            LAMBDA r : BandIs(r, band_filter))
    /\ \A i \in 1..Len(filtered) : BAND \in DOMAIN filtered[i]

C10_Witness ==
  /\ op = "filter" /\ filter_type = "unconfirmed_no_qsl" /\ band_filter = B20m
  /\ \E i \in 1..Len(filtered) : filtered[i][BAND] = B20M
  /\ \E i \in 1..Len(records) : ~FlagIsY(records[i]) /\ BAND \notin DOMAIN records[i]

\* The items of the file most recently parsed with success.
CurrentItems ==
  IF current_file = "a" THEN file ELSE IF current_file = "b" THEN file2 ELSE <<>>

\* The items of the file parsed with success before that one.
PreviousItems ==
  IF prev_file = "a" THEN file ELSE IF prev_file = "b" THEN file2 ELSE <<>>

\* C11: after any sequence of parse_file calls the collection is exactly the
\* records of the file most recently parsed with success, in the order of its
\* chunks, and is empty before the first parse; no record of an earlier file
\* is left over.
C11_RecordsOfLastFile ==
  /\ records = ChunkRecords(CurrentItems, TrimmedCut)
  /\ current_file = "none" => records = <<>>

C11_Witness ==
  /\ op = "parse"
  /\ current_file = "b" /\ prev_file = "a"
  /\ Len(records) = 2
  /\ LET before == ChunkRecords(PreviousItems, TrimmedCut)
     IN /\ Len(before) = 1
        /\ BAND \in DOMAIN before[1]
        /\ before[1] \notin Range(records)

\* The place of the first record equal to r in recs.
PlaceIn(recs, r) == CHOOSE i \in 1..Len(recs) : recs[i] = r /\ \A j \in 1..(i - 1) : recs[j] # r

\* C12: no filter_records call, whatever the kind and the band, and no
\* sort_records_by_band call changes the collection in length, order or field
\* contents, and sort_records_by_band leaves the list it is given unchanged.
C12_RecordsUnchanged ==
  [][ /\ op' = "filter" => records' = records
      /\ op' = "sort" => (records' = records /\ filtered' = filtered) ]_vars

C12_Witness ==
  /\ op = "sort" /\ filter_type = "confirmed_countries"
  /\ Len(filtered) >= 2
  /\ \E i, j \in 1..Len(filtered) :
       i < j /\ PlaceIn(records, filtered[i]) > PlaceIn(records, filtered[j])
  /\ sorted = sort_records_by_band(filtered)
  /\ file = FileOf(records)

\* C13: a parse_file call that fails to open, read or decode the file leaves
\* the collection as it was before the call, and a filter_records call after
\* it works on the records of the file loaded before (on no record if none
\* was loaded), never on records of the failing file.
C13_FailedReadKeepsRecords ==
  [][ /\ op' = "error" => (records' = records /\ current_file' = current_file)
      /\ (failed /\ op' = "filter") =>
           filtered' = filter_records(ChunkRecords(CurrentItems, TrimmedCut),
                                      filter_type', band_filter') ]_vars

C13_Witness ==
  /\ op = "filter" /\ failed
  /\ current_file = "a"
  /\ filter_type = "all" /\ band_filter = B40M
  /\ Len(records) = 1
  /\ filtered = records

====
